---- MODULE Spec2Model ----
(***************************************************************************)
(* Random Shosha Bot: the post-composition and publishing pipeline of      *)
(* Code.ts (fetch a sentence, format it, publish it to X and to Bluesky).  *)
(*                                                                         *)
(* A JavaScript string is modelled as the sequence of its UTF-16 code      *)
(* units (naturals), so that regular-expression offsets (code units) and   *)
(* facet offsets (UTF-8 bytes) are different quantities, as in the code.   *)
(***************************************************************************)
EXTENDS Integers, Sequences, FiniteSets

VARIABLES
    entry,          \* the function the scheduler (or a caller) invoked
    pc,             \* position inside that invocation
    args,           \* arguments of the current postToX / postToBluesky call
    data,           \* what fetch*Sentence returned
    shareContent,   \* what generate*ShareContent returned
    requests,       \* every UrlFetchApp.fetch call made so far, in order
    xResult,        \* return value of postToX
    accessJwt,      \* return value of createBlueskySession
    facets,         \* return value of extractFacets
    blob,           \* return value of uploadBlobToBluesky
    record,         \* the record handed to createRecord
    blueskyResult,  \* return value of postToBluesky
    thrown,         \* where an exception raised in the invocation ended up
    shareUrls,      \* the generateShareUrl calls made on their own, with results
    oauth           \* arguments, locals and result of an OAuth signing call

vars ==
    <<entry, pc, args, data, shareContent, requests, xResult, accessJwt,
      facets, blob, record, blueskyResult, thrown, shareUrls, oauth>>

----------------------------------------------------------------------------
(* Bounds of the model.                                                    *)

\* longest text, in tokens, given to extractFacets on its own
MaxTokens ==
    4

\* longest text, in tokens, given to a direct postToX / postToBluesky call
MaxCallTokens ==
    2

\* longest book_id, in tokens, given to generateShareUrl on its own
MaxUrlTokens ==
    1

\* largest sentence_id given to generateShareUrl on its own
MaxUrlId ==
    2

\* longest book_id, in tokens, of a record given to generate*ShareContent
MaxBookTokens ==
    2

\* largest one-digit sentence_id of a record given to generate*ShareContent
\* (the two-digit 12 is always among the sentence ids)
MaxSentenceId ==
    2

\* largest number of extra request parameters given to an OAuth signing call
MaxParams ==
    2

----------------------------------------------------------------------------
(* Strings.                                                                *)

\* the value undefined where a string is expected
Undefined ==
    <<-1>>

\* the value null where a string or an object is expected
Null ==
    <<-2>>

\* JavaScript truthiness of a string-or-missing value
Truthy(s) ==
    s # Undefined /\ s # Null /\ s # <<>>

Min(S) ==
    CHOOSE x \in S : \A y \in S : x <= y

\* String.prototype.substring(a, b) with 0 <= a <= b <= length
Substring(s, a, b) ==
    SubSeq(s, a + 1, b)

IsHighSurrogate(u) ==
    u >= 55296 /\ u <= 56319

IsLowSurrogate(u) ==
    u >= 56320 /\ u <= 57343

\* UTF-8 bytes of the code point cp
Utf8OfCodePoint(cp) ==
    IF cp < 128 THEN <<cp>>
    ELSE IF cp < 2048 THEN <<192 + (cp \div 64), 128 + (cp % 64)>>
    ELSE IF cp < 65536 THEN
        <<224 + (cp \div 4096), 128 + ((cp \div 64) % 64), 128 + (cp % 64)>>
    ELSE
        <<240 + (cp \div 262144), 128 + ((cp \div 4096) % 64),
          128 + ((cp \div 64) % 64), 128 + (cp % 64)>>

\* whether units i and i + 1 of s are a surrogate pair
PairStartsAt(s, i) ==
    i < Len(s) /\ IsHighSurrogate(s[i]) /\ IsLowSurrogate(s[i + 1])

\* the UTF-8 bytes code unit i of s contributes: a surrogate pair gives the
\* four bytes of its code point at its first unit and nothing at its second,
\* an unpaired surrogate gives the replacement byte '?'
Utf8At(s, i) ==
    IF PairStartsAt(s, i) THEN
        Utf8OfCodePoint(65536 + (s[i] - 55296) * 1024 + (s[i + 1] - 56320))
    ELSE IF i > 1 /\ PairStartsAt(s, i - 1) THEN <<>>
    ELSE IF IsHighSurrogate(s[i]) \/ IsLowSurrogate(s[i]) THEN <<63>>
    ELSE Utf8OfCodePoint(s[i])

RECURSIVE Utf8Range(_, _, _)
\* the UTF-8 bytes contributed by units lo..hi of s, in order
Utf8Range(s, lo, hi) ==
    IF lo > hi THEN <<>>
    ELSE IF lo = hi THEN Utf8At(s, lo)
    ELSE Utf8Range(s, lo, (lo + hi) \div 2)
             \o Utf8Range(s, ((lo + hi) \div 2) + 1, hi)

\* Utilities.newBlob(s).getBytes()
GetBytes(s) ==
    Utf8Range(s, 1, Len(s))

\* \s of a JavaScript regular expression
IsSpace(u) ==
    u \in {9, 10, 11, 12, 13, 32, 160, 5760, 8232, 8233, 8239, 8287, 12288, 65279}
        \/ (u >= 8192 /\ u <= 8202)

\* [a-zA-Z0-9_\u3040-\u309F\u30A0-\u30FF\u4E00-\u9FFF]
IsTagChar(u) ==
    \/ (u >= 97 /\ u <= 122)
    \/ (u >= 65 /\ u <= 90)
    \/ (u >= 48 /\ u <= 57)
    \/ u = 95
    \/ (u >= 12352 /\ u <= 12447)
    \/ (u >= 12448 /\ u <= 12543)
    \/ (u >= 19968 /\ u <= 40959)

\* whether the literal lit occurs in s at 1-based position i
HasAt(s, i, lit) ==
    i + Len(lit) - 1 <= Len(s) /\ SubSeq(s, i, i + Len(lit) - 1) = lit

\* 'http://'
LitHttp ==
    <<104, 116, 116, 112, 58, 47, 47>>

\* 'https://'
LitHttps ==
    <<104, 116, 116, 112, 115, 58, 47, 47>>

\* '#'
LitHash ==
    <<35>>

----------------------------------------------------------------------------
(* extractFacets.                                                          *)

\* end (1-based, exclusive) of the longest run of non-space units from j
NonSpaceRunEnd(s, j) ==
    Min({k \in j..(Len(s) + 1) : k = Len(s) + 1 \/ IsSpace(s[k])})

\* end (1-based, exclusive) of the longest run of hashtag units from j
TagRunEnd(s, j) ==
    Min({k \in j..(Len(s) + 1) : k = Len(s) + 1 \/ ~IsTagChar(s[k])})

\* /https?:\/\/[^\s]+/ tried at 1-based position i: the end (exclusive) of the
\* match, 0 when there is none
UrlMatchAt(s, i) ==
    LET body == IF HasAt(s, i, LitHttps) THEN i + Len(LitHttps)
                ELSE IF HasAt(s, i, LitHttp) THEN i + Len(LitHttp)
                ELSE 0
    IN  IF body = 0 THEN 0
        ELSE IF NonSpaceRunEnd(s, body) = body THEN 0
        ELSE NonSpaceRunEnd(s, body)

\* /#[a-zA-Z0-9_...]+/ tried at 1-based position i
HashtagMatchAt(s, i) ==
    IF ~HasAt(s, i, LitHash) THEN 0
    ELSE IF TagRunEnd(s, i + 1) = i + 1 THEN 0
    ELSE TagRunEnd(s, i + 1)

RECURSIVE UrlExec(_, _)
\* the successive results of urlRegex.exec(text) from lastIndex on:
\* [index |-> match.index (0-based), m |-> match[0]]
UrlExec(s, lastIndex) ==
    LET starts == {i \in (lastIndex + 1)..Len(s) : UrlMatchAt(s, i) # 0}
    IN  IF starts = {} THEN <<>>
        ELSE LET i == Min(starts)
                 e == UrlMatchAt(s, i)
             IN  <<[index |-> i - 1, m |-> SubSeq(s, i, e - 1)]>>
                     \o UrlExec(s, e - 1)

RECURSIVE HashtagExec(_, _)
\* the successive results of hashtagRegex.exec(text) from lastIndex on
HashtagExec(s, lastIndex) ==
    LET starts == {i \in (lastIndex + 1)..Len(s) : HashtagMatchAt(s, i) # 0}
    IN  IF starts = {} THEN <<>>
        ELSE LET i == Min(starts)
                 e == HashtagMatchAt(s, i)
             IN  <<[index |-> i - 1, m |-> SubSeq(s, i, e - 1)]>>
                     \o HashtagExec(s, e - 1)

\* ByteStart with the offset counted in UTF-16 code units
ByteStart_CodeUnits(text, match) ==
    match.index

\* byteStart of a match: bytes of text.substring(0, match.index)
ByteStart(text, match) ==
    Len(GetBytes(Substring(text, 0, match.index)))

\* byteEnd of a match: byteStart + bytes of match[0]
ByteEnd(text, match) ==
    ByteStart(text, match) + Len(GetBytes(match.m))

\* the facet pushed for a URL match
LinkFacet(text, match) ==
    [index |-> [byteStart |-> ByteStart(text, match),
                byteEnd |-> ByteEnd(text, match)],
     type |-> "app.bsky.richtext.facet#link",
     value |-> match.m]

\* the facet pushed for a hashtag match; the tag is the match without its '#'
TagFacet(text, match) ==
    [index |-> [byteStart |-> ByteStart(text, match),
                byteEnd |-> ByteEnd(text, match)],
     type |-> "app.bsky.richtext.facet#tag",
     value |-> Substring(match.m, 1, Len(match.m))]

\* extractFacets(text): link facets in match order, then tag facets
extractFacets(text) ==
    LET urls == UrlExec(text, 0)
        tags == HashtagExec(text, 0)
    IN  [k \in 1..Len(urls) |-> LinkFacet(text, urls[k])]
            \o [k \in 1..Len(tags) |-> TagFacet(text, tags[k])]

----------------------------------------------------------------------------
(* Content formatting.                                                     *)

\* what a template literal prints for a string-or-undefined value
Str(s) ==
    IF s = Undefined THEN <<117, 110, 100, 101, 102, 105, 110, 101, 100>> ELSE s

RECURSIVE NumberToString(_)
\* Number.prototype.toString() of a natural number: its decimal digits
NumberToString(n) ==
    IF n < 10 THEN <<48 + n>> ELSE NumberToString(n \div 10) \o <<48 + (n % 10)>>

\* the characters encodeURIComponent leaves alone: A-Z a-z 0-9 - _ . ! ~ * ' ( )
IsUriUnreserved(b) ==
    \/ (b >= 97 /\ b <= 122)
    \/ (b >= 65 /\ b <= 90)
    \/ (b >= 48 /\ b <= 57)
    \/ b \in {45, 95, 46, 33, 126, 42, 39, 40, 41}

\* an upper-case hexadecimal digit
HexDigit(n) ==
    IF n < 10 THEN 48 + n ELSE 55 + n

\* the escape of one UTF-8 byte
PercentEncodeByte(b) ==
    IF IsUriUnreserved(b) THEN <<b>>
    ELSE <<37, HexDigit(b \div 16), HexDigit(b % 16)>>

RECURSIVE PercentEncodeBytes(_, _, _)
\* the escapes of bytes lo..hi of bs, in order
PercentEncodeBytes(bs, lo, hi) ==
    IF lo > hi THEN <<>>
    ELSE IF lo = hi THEN PercentEncodeByte(bs[lo])
    ELSE PercentEncodeBytes(bs, lo, (lo + hi) \div 2)
             \o PercentEncodeBytes(bs, ((lo + hi) \div 2) + 1, hi)

\* encodeURIComponent(s) for a well-formed string (or undefined)
encodeURIComponent(s) ==
    PercentEncodeBytes(GetBytes(Str(s)), 1, Len(GetBytes(Str(s))))

\* 'https://rmc-8.com/shosha/random_shosha/?book_id='
ShareBaseJa ==
    <<104, 116, 116, 112, 115, 58, 47, 47, 114, 109, 99, 45, 56, 46, 99, 111,
    109, 47, 115, 104, 111, 115, 104, 97, 47, 114, 97, 110, 100, 111, 109,
    95, 115, 104, 111, 115, 104, 97, 47, 63, 98, 111, 111, 107, 95, 105, 100,
    61>>

\* 'https://rmc-8.com/shosha/random_shosha_en/?book_id='
ShareBaseEn ==
    <<104, 116, 116, 112, 115, 58, 47, 47, 114, 109, 99, 45, 56, 46, 99, 111,
    109, 47, 115, 104, 111, 115, 104, 97, 47, 114, 97, 110, 100, 111, 109,
    95, 115, 104, 111, 115, 104, 97, 95, 101, 110, 47, 63, 98, 111, 111, 107,
    95, 105, 100, 61>>

\* '&sentence_id='
ShareSentenceId ==
    <<38, 115, 101, 110, 116, 101, 110, 99, 101, 95, 105, 100, 61>>

\* '#\u30e9\u30f3\u30c0\u30e0\u66f8\u5199'
MainHashtagJa ==
    <<35, 12521, 12531, 12480, 12512, 26360, 20889>>

\* '#random_shosha'
MainHashtagEn ==
    <<35, 114, 97, 110, 100, 111, 109, 95, 115, 104, 111, 115, 104, 97>>

\* 'https://rmc-8.com/api/og-shosha?sentence='
OgpBase ==
    <<104, 116, 116, 112, 115, 58, 47, 47, 114, 109, 99, 45, 56, 46, 99, 111,
    109, 47, 97, 112, 105, 47, 111, 103, 45, 115, 104, 111, 115, 104, 97, 63,
    115, 101, 110, 116, 101, 110, 99, 101, 61>>

\* '&title='
OgpTitle ==
    <<38, 116, 105, 116, 108, 101, 61>>

\* '&author='
OgpAuthor ==
    <<38, 97, 117, 116, 104, 111, 114, 61>>

\* '&lang='
OgpLang ==
    <<38, 108, 97, 110, 103, 61>>

\* 'Random Shosha - \u66f8\u5199\u306e\u304a\u984c'
TitleJa ==
    <<82, 97, 110, 100, 111, 109, 32, 83, 104, 111, 115, 104, 97, 32, 45, 32,
    26360, 20889, 12398, 12362, 38988>>

\* '\u53e4\u5178\u6587\u5b66\u306e\u4e00\u6587\u3092\u66f8\u5199\u306e\u304a\u984c\u3068\u3057\u3066'
DescriptionJa ==
    <<21476, 20856, 25991, 23398, 12398, 19968, 25991, 12434, 26360, 20889,
    12398, 12362, 38988, 12392, 12375, 12390>>

\* 'Random Shosha - Calligraphy Practice'
TitleEn ==
    <<82, 97, 110, 100, 111, 109, 32, 83, 104, 111, 115, 104, 97, 32, 45, 32,
    67, 97, 108, 108, 105, 103, 114, 97, 112, 104, 121, 32, 80, 114, 97, 99,
    116, 105, 99, 101>>

\* 'Classic literature sentence for calligraphy practice'
DescriptionEn ==
    <<67, 108, 97, 115, 115, 105, 99, 32, 108, 105, 116, 101, 114, 97, 116,
    117, 114, 101, 32, 115, 101, 110, 116, 101, 110, 99, 101, 32, 102, 111,
    114, 32, 99, 97, 108, 108, 105, 103, 114, 97, 112, 104, 121, 32, 112,
    114, 97, 99, 116, 105, 99, 101>>

\* the field of a parsed body, undefined when the body does not carry it
Field(d, name) ==
    IF name \in d.missing THEN Undefined ELSE d[name]

\* `${sentenceId}` of a parsed body
SentenceIdString(d) ==
    IF "sentence_id" \in d.missing THEN Str(Undefined) ELSE NumberToString(d.sentence_id)

\* the book id with its hyphens left in
RemoveHyphens_Keep(s) ==
    s

\* bookId.replace(/-/g, '')
RemoveHyphens(s) ==
    SelectSeq(s, LAMBDA u : u # 45)

\* generateShareUrl with the book id put into the URL as it is
generateShareUrl_RawBookId(bookId, sentenceId, lang) ==
    (IF lang = "en" THEN ShareBaseEn ELSE ShareBaseJa)
        \o Str(bookId) \o ShareSentenceId \o sentenceId

\* generateShareUrl, with sentenceId already printed
generateShareUrl(bookId, sentenceId, lang) ==
    (IF lang = "en" THEN ShareBaseEn ELSE ShareBaseJa)
        \o encodeURIComponent(bookId) \o ShareSentenceId \o sentenceId

\* generateHashtags throws a TypeError when bookId has no replace method
generateHashtagsThrows(bookId) ==
    bookId = Undefined

\* generateHashtags with one primary tag for both languages
generateHashtags_NoLang(bookId, sentenceId, lang) ==
    MainHashtagEn \o <<32, 35>> \o RemoveHyphens(bookId) \o <<95>> \o sentenceId

\* generateHashtags, with sentenceId already printed
generateHashtags(bookId, sentenceId, lang) ==
    (IF lang = "ja" THEN MainHashtagJa ELSE MainHashtagEn)
        \o <<32, 35>> \o RemoveHyphens(bookId) \o <<95>> \o sentenceId

\* generateJapaneseShareContent
generateJapaneseShareContent(d) ==
    LET shareUrl == generateShareUrl(Field(d, "book_id"), SentenceIdString(d), "ja")
        hashtags == generateHashtags(Field(d, "book_id"), SentenceIdString(d), "ja")
    IN  [text |-> <<12302>> \o Str(Field(d, "title")) \o <<12303>>
                      \o Str(Field(d, "author")) \o <<33879, 10>>
                      \o hashtags \o <<10>> \o shareUrl,
         url |-> shareUrl]

\* generateEnglishShareContent returning the URL of the Japanese page
generateEnglishShareContent_JapaneseUrl(d) ==
    LET shareUrl == generateShareUrl(Field(d, "book_id"), SentenceIdString(d), "en")
        hashtags == generateHashtags(Field(d, "book_id"), SentenceIdString(d), "en")
    IN  [text |-> <<34>> \o Str(Field(d, "title")) \o <<34, 32, 98, 121, 32>>
                      \o Str(Field(d, "author")) \o <<10>>
                      \o hashtags \o <<10>> \o shareUrl,
         url |-> generateShareUrl(Field(d, "book_id"), SentenceIdString(d), "ja")]

\* generateEnglishShareContent
generateEnglishShareContent(d) ==
    LET shareUrl == generateShareUrl(Field(d, "book_id"), SentenceIdString(d), "en")
        hashtags == generateHashtags(Field(d, "book_id"), SentenceIdString(d), "en")
    IN  [text |-> <<34>> \o Str(Field(d, "title")) \o <<34, 32, 98, 121, 32>>
                      \o Str(Field(d, "author")) \o <<10>>
                      \o hashtags \o <<10>> \o shareUrl,
         url |-> shareUrl]

\* generateOGPImageUrl
generateOGPImageUrl(sentenceText, title, author, lang) ==
    OgpBase \o encodeURIComponent(sentenceText)
        \o OgpTitle \o encodeURIComponent(title)
        \o OgpAuthor \o encodeURIComponent(author)
        \o OgpLang \o encodeURIComponent(IF lang = "ja" THEN <<106, 97>>
                                                      ELSE <<101, 110>>)

----------------------------------------------------------------------------
(* OAuth 1.0a signing.  A parameter object is a function from its keys to   *)
(* its values.                                                             *)

\* whether string a sorts before string b in Array.prototype.sort():
\* comparison code unit by code unit, a proper prefix first
StringLess(a, b) ==
    \E i \in 1..(Min({Len(a), Len(b)}) + 1) :
        /\ SubSeq(a, 1, i - 1) = SubSeq(b, 1, i - 1)
        /\ \/ (i > Len(a) /\ i <= Len(b))
           \/ (i <= Len(a) /\ i <= Len(b) /\ a[i] < b[i])

RECURSIVE SortKeys(_)
\* keys.sort(): the strings of a set in ascending order
SortKeys(keys) ==
    IF keys = {} THEN <<>>
    ELSE LET first == CHOOSE k \in keys :
                          \A other \in keys \ {k} : StringLess(k, other)
         IN  <<first>> \o SortKeys(keys \ {first})

RECURSIVE Join(_, _)
\* parts.join(separator)
Join(parts, separator) ==
    IF Len(parts) = 0 THEN <<>>
    ELSE IF Len(parts) = 1 THEN parts[1]
    ELSE parts[1] \o separator \o Join(Tail(parts), separator)

\* method.toUpperCase(), for a method spelt in ASCII
toUpperCase(s) ==
    [i \in 1..Len(s) |-> IF s[i] >= 97 /\ s[i] <= 122 THEN s[i] - 32 ELSE s[i]]

\* key.startsWith('oauth_')
StartsWithOAuth(key) ==
    HasAt(key, 1, <<111, 97, 117, 116, 104, 95>>)

\* sortedParams of generateOAuthSignature
sortedParams(params) ==
    LET keys == SortKeys(DOMAIN params)
    IN  Join([i \in 1..Len(keys) |->
                 encodeURIComponent(keys[i]) \o <<61>>
                     \o encodeURIComponent(params[keys[i]])],
             <<38>>)

\* signatureBaseString of generateOAuthSignature
signatureBaseString(method, url, params) ==
    Join(<<toUpperCase(method), encodeURIComponent(url),
           encodeURIComponent(sortedParams(params))>>, <<38>>)

\* signingKey of generateOAuthSignature
signingKey(consumerSecret, tokenSecret) ==
    encodeURIComponent(consumerSecret) \o <<38>> \o encodeURIComponent(tokenSecret)

\* 'oauth_consumer_key'
OAuthConsumerKey ==
    <<111, 97, 117, 116, 104, 95, 99, 111, 110, 115, 117, 109, 101, 114, 95, 107, 101, 121>>

\* 'oauth_token'
OAuthToken ==
    <<111, 97, 117, 116, 104, 95, 116, 111, 107, 101, 110>>

\* 'oauth_signature_method'
OAuthSignatureMethod ==
    <<111, 97, 117, 116, 104, 95, 115, 105, 103, 110, 97, 116, 117, 114, 101, 95, 109, 101, 116, 104, 111, 100>>

\* 'oauth_timestamp'
OAuthTimestamp ==
    <<111, 97, 117, 116, 104, 95, 116, 105, 109, 101, 115, 116, 97, 109, 112>>

\* 'oauth_nonce'
OAuthNonce ==
    <<111, 97, 117, 116, 104, 95, 110, 111, 110, 99, 101>>

\* 'oauth_version'
OAuthVersion ==
    <<111, 97, 117, 116, 104, 95, 118, 101, 114, 115, 105, 111, 110>>

\* 'oauth_signature'
OAuthSignature ==
    <<111, 97, 117, 116, 104, 95, 115, 105, 103, 110, 97, 116, 117, 114, 101>>

\* the six keys generateOAuthHeader always sets
FixedOAuthKeys ==
    {OAuthConsumerKey, OAuthToken, OAuthSignatureMethod, OAuthTimestamp,
     OAuthNonce, OAuthVersion}

\* oauthParams of generateOAuthHeader: the six fixed parameters, then
\* ...params (a key of params replaces a fixed one)
oauthParams(params, credentials, timestamp, nonce) ==
    [key \in FixedOAuthKeys \cup DOMAIN params |->
        IF key \in DOMAIN params THEN params[key]
        ELSE IF key = OAuthConsumerKey THEN credentials.apiKey
        ELSE IF key = OAuthToken THEN credentials.accessToken
        ELSE IF key = OAuthSignatureMethod THEN <<72, 77, 65, 67, 45, 83, 72, 65, 49>>
        ELSE IF key = OAuthTimestamp THEN timestamp
        ELSE IF key = OAuthNonce THEN nonce
        ELSE <<49, 46, 48>>]

\* oauthParams.oauth_signature = signature
WithSignature(params, signature) ==
    [key \in DOMAIN params \cup {OAuthSignature} |->
        IF key = OAuthSignature THEN signature ELSE params[key]]

\* every key of the parameters, with or without the 'oauth_' prefix
HeaderKeys_All(params) ==
    DOMAIN params

\* Object.keys(oauthParams).filter((key) => key.startsWith('oauth_'))
HeaderKeys(params) ==
    {key \in DOMAIN params : StartsWithOAuth(key)}

\* headerParams of generateOAuthHeader
headerParams(params) ==
    LET keys == SortKeys(HeaderKeys(params))
    IN  Join([i \in 1..Len(keys) |->
                 encodeURIComponent(keys[i]) \o <<61, 34>>
                     \o encodeURIComponent(params[keys[i]]) \o <<34>>],
             <<44, 32>>)

\* 'OAuth '
LitOAuth ==
    <<79, 65, 117, 116, 104, 32>>

----------------------------------------------------------------------------
(* Inputs.                                                                 *)

\* pieces texts are built from: 'http://', 'https://', '#', 'a', ' ',
\* hiragana a (3 bytes), e-acute (2 bytes), an emoji (a surrogate pair, 4 bytes)
TextTokens ==
    {LitHttp, LitHttps, LitHash, <<97>>, <<32>>, <<12354>>, <<233>>,
     <<55357, 56832>>}

RECURSIVE TextsUpTo(_)
\* every concatenation of at most n tokens
TextsUpTo(n) ==
    IF n = 0 THEN {<<>>}
    ELSE LET shorter == TextsUpTo(n - 1)
         IN  shorter \cup {t \o k : t \in shorter, k \in TextTokens}

\* the bodies the content API can answer with, as parsed by JSON.parse:
\* 'meian-natsume' / 12 / title and author in kanji, and 'a-b' / 3 / 'T' / 'A'
SentenceBodies ==
    {[sentence_text |-> <<12354>>,
      book_id |-> <<109, 101, 105, 97, 110, 45, 110, 97, 116, 115, 117, 109, 101>>,
      sentence_id |-> 12,
      title |-> <<26126, 26263>>,
      author |-> <<22799, 30446, 28465, 30707>>,
      missing |-> m] : m \in {{}, {"title"}, {"book_id"}}}
    \cup
    {[sentence_text |-> <<97, 32, 97>>,
      book_id |-> <<97, 45, 98>>,
      sentence_id |-> 3,
      title |-> <<84>>,
      author |-> <<65>>,
      missing |-> m] : m \in {{}, {"sentence_text", "book_id", "sentence_id",
                                   "title", "author"}}}

\* pieces book ids are built from: 'a', 'B', '1', '-', '_', '&', '%',
\* hiragana a
BookTokens ==
    {<<97>>, <<66>>, <<49>>, <<45>>, <<95>>, <<38>>, <<37>>,
     <<12354>>}

RECURSIVE BookIdsUpTo(_)
\* every concatenation of at most n book id tokens
BookIdsUpTo(n) ==
    IF n = 0 THEN {<<>>}
    ELSE LET shorter == BookIdsUpTo(n - 1)
         IN  shorter \cup {t \o k : t \in shorter, k \in BookTokens}

\* 'meian-natsume'
MeianNatsume ==
    <<109, 101, 105, 97, 110, 45, 110, 97, 116, 115, 117, 109, 101>>

\* title and author of the records given to generate*ShareContent: kanji,
\* ASCII, a title with a space and a '#', an author holding 'http://'
TitleAuthors ==
    {<<<<26126, 26263>>, <<22799, 30446, 28465, 30707>>>>,
     <<<<84>>, <<65>>>>,
     <<<<97, 32, 35, 98>>, <<65>>>>,
     <<<<84>>, LitHttp \o <<120>>>>}

\* the sentence records given to generate*ShareContent
FormatRecords ==
    {[sentence_text |-> <<12354>>,
      book_id |-> b,
      sentence_id |-> n,
      title |-> ta[1],
      author |-> ta[2],
      missing |-> {}] : b \in BookIdsUpTo(MaxBookTokens) \cup {MeianNatsume},
                         n \in (0..MaxSentenceId) \cup {12},
                         ta \in TitleAuthors}

\* keys of the extra request parameters: 'A', '[', 'status', 'oauth_callback'
ParamKeys ==
    {<<65>>, <<91>>, <<115, 116, 97, 116, 117, 115>>,
     <<111, 97, 117, 116, 104, 95, 99, 97, 108, 108, 98, 97, 99, 107>>}

\* values of the extra request parameters: '1' and "b*'(c)!"
ParamValues ==
    {<<49>>, <<98, 42, 39, 40, 99, 41, 33>>}

\* every parameter object of at most n of the keys
ParamSets(n) ==
    UNION {[keys -> ParamValues] :
              keys \in {some \in SUBSET ParamKeys : Cardinality(some) <= n}}

\* the HTTP methods a caller passes: 'POST' and 'post'
Methods ==
    {<<80, 79, 83, 84>>, <<112, 111, 115, 116>>}

\* 'https://api.twitter.com/2/tweets'
TweetsUrl ==
    <<104, 116, 116, 112, 115, 58, 47, 47, 97, 112, 105, 46, 116, 119, 105, 116, 116, 101, 114, 46, 99, 111, 109, 47, 50, 47, 116, 119, 101, 101, 116, 115>>

\* the X credentials of the script properties; the API secret is 'cs' or
\* "s!*'()", the token secret 't&s'
XCredentials ==
    {[apiKey |-> <<99, 107>>,
      apiSecret |-> secret,
      accessToken |-> <<116, 107>>,
      accessTokenSecret |-> <<116, 38, 115>>] :
        secret \in {<<99, 115>>, <<115, 33, 42, 39, 40, 41>>}}

\* Math.floor(Date.now() / 1000).toString()
Timestamps ==
    {NumberToString(1762300800)}

\* Utilities.getUuid()
Nonces ==
    {<<49, 50, 51, 101, 52, 53, 54, 55, 45, 101, 56, 57, 98, 45, 49, 50, 100, 51, 45, 97, 52, 53, 54, 45, 52, 50, 54, 54, 49, 52, 49, 55, 52, 48, 48, 48>>}

\* Utilities.base64Encode(Utilities.computeHmacSignature(...)): the HMAC is
\* not computed here, the result is one of two base64 strings of 20 bytes
Signatures ==
    {<<116, 110, 110, 65, 114, 120, 106, 48, 54, 99, 87, 72, 113, 52, 52, 103, 67, 115, 49, 79, 83, 75, 107, 47, 106, 76, 89, 61>>,
     <<104, 67, 116, 83, 109, 89, 104, 43, 105, 72, 89, 67, 69, 113, 66, 87, 114, 69, 55, 67, 55, 104, 89, 109, 116, 85, 107, 61>>}

\* the signing state before a call
NoOAuth ==
    [method |-> Undefined, url |-> Undefined, params |-> <<>>,
     credentials |-> Undefined, timestamp |-> Undefined, nonce |-> Undefined,
     oauthParams |-> <<>>, sortedParams |-> Undefined,
     signatureBaseString |-> Undefined, signingKey |-> Undefined,
     signature |-> Undefined, header |-> Undefined]

\* data before the fetch
NoData ==
    [sentence_text |-> <<>>, book_id |-> <<>>, sentence_id |-> 0, title |-> <<>>,
     author |-> <<>>,
     missing |-> {"sentence_text", "book_id", "sentence_id", "title", "author"}]

\* whether a parsed body has the SentenceRecord shape
IsSentenceRecord(d) ==
    d.missing = {}

NoShareContent ==
    [text |-> <<>>, url |-> <<>>]

NoArgs ==
    [text |-> <<>>, shareUrl |-> Undefined, ogpTitle |-> Undefined,
     ogpDescription |-> Undefined, ogpImageUrl |-> Undefined]

NoEmbed ==
    [uri |-> <<>>, title |-> <<>>, description |-> <<>>, hasThumb |-> FALSE,
     thumb |-> Undefined]

NoRecord ==
    [text |-> <<>>, hasFacets |-> FALSE, facets |-> <<>>, hasEmbed |-> FALSE,
     embed |-> NoEmbed]

\* the entry points the scheduler triggers
Triggers ==
    {"postToXJapanese", "postToXEnglish", "postToBlueskyJapanese",
     "postToBlueskyEnglish", "postJapanese", "postEnglish"}

\* the publish functions, called on their own
DirectCalls ==
    {"postToX", "postToBluesky"}

Lang(e) ==
    IF e \in {"postToXJapanese", "postToBlueskyJapanese", "postJapanese"}
    THEN "ja" ELSE "en"

PostsToX(e) ==
    e \in {"postToXJapanese", "postToXEnglish", "postJapanese", "postEnglish"}

PostsToBluesky(e) ==
    e \in {"postToBlueskyJapanese", "postToBlueskyEnglish", "postJapanese",
           "postEnglish"}

\* an access token as createSession answers it
AccessJwts ==
    {<<106, 119, 116, 49>>, <<106, 119, 116, 50>>}

\* a blob reference as uploadBlob answers it
BlobRef ==
    <<98, 108, 111, 98>>

\* a response body JSON.parse rejects
NotJson ==
    <<-3>>

\* one UrlFetchApp.fetch call and how it ended: the bearer it carried, whether
\* the transport threw, the status (0 when it threw) and what the code reads
\* from the body (the accessJwt, the blob; for the content API Undefined
\* stands for a JSON object, whose fields are in data)
Request(kind, bearer, threw, status, body) ==
    [kind |-> kind, bearer |-> bearer, threw |-> threw,
     status |-> IF threw THEN 0 ELSE status,
     body |-> IF threw THEN Undefined ELSE body]

----------------------------------------------------------------------------
(* The invocation.                                                         *)

\* EntryCatches with postJapanese left without its try/catch
EntryCatches_NotCombinedJa(e) ==
    e \in Triggers \ {"postJapanese"}

\* the try/catch around the whole body of every trigger entry point
EntryCatches(e) ==
    e \in Triggers

\* an exception leaves the function it was raised in: the entry point's catch
\* logs it and returns; with no catch around it reaches the caller
Raise(err) ==
    /\ thrown' = err
    /\ pc' = IF EntryCatches(entry) THEN "done" ELSE "escaped"

\* postToXCatches with the try/catch left out
postToXCatches_Missing ==
    FALSE

\* the try/catch around the body of postToX
postToXCatches ==
    TRUE

\* postToXSucceeded taking 200 for success as well
postToXSucceeded_Any2xx(responseCode) ==
    responseCode \in {200, 201}

\* the status postToX takes for success
postToXSucceeded(responseCode) ==
    responseCode = 201

\* the try/catch around the body of createBlueskySession
createBlueskySessionCatches ==
    TRUE

\* postToBlueskyCatches with the try/catch left out
postToBlueskyCatches_Missing ==
    FALSE

\* the try/catch around postToBluesky's body after the session check
postToBlueskyCatches ==
    TRUE

\* the status postToBluesky takes for success
postToBlueskySucceeded(responseCode) ==
    responseCode = 200

\* uploadBlobToBlueskyCatches with the try/catch left out
uploadBlobToBlueskyCatches_Missing ==
    FALSE

\* the try/catch around the body of uploadBlobToBluesky
uploadBlobToBlueskyCatches ==
    TRUE

\* the arguments a trigger entry point calls postToBluesky with
BlueskyArgs(e, d, content) ==
    [text |-> content.text,
     shareUrl |-> content.url,
     ogpTitle |-> IF Lang(e) = "ja" THEN TitleJa ELSE TitleEn,
     ogpDescription |-> IF Lang(e) = "ja" THEN DescriptionJa ELSE DescriptionEn,
     ogpImageUrl |-> generateOGPImageUrl(Field(d, "sentence_text"),
                                         Field(d, "title"), Field(d, "author"),
                                         Lang(e))]

\* fetchJapaneseSentence / fetchEnglishSentence as the entry point calls it:
\* one GET without muteHttpExceptions, JSON.parse, the log line reading
\* data.title; every exception is rethrown as an Error to the entry point
FetchSentence ==
    /\ pc = "fetch"
    /\ \E throws \in BOOLEAN, status \in {200, 404},
          body \in {Undefined, Null, NotJson}, parsed \in SentenceBodies :
        /\ requests' = Append(requests,
                               Request("content", Undefined, throws, status, body))
        /\ IF throws \/ status # 200 \/ body # Undefined
           THEN /\ Raise("fetch")
                /\ data' = data
           ELSE /\ data' = parsed
                /\ pc' = "format"
                /\ thrown' = thrown
    /\ UNCHANGED <<oauth, shareUrls, entry, args, shareContent, xResult, accessJwt, facets, blob,
                   record, blueskyResult>>

\* generateJapaneseShareContent / generateEnglishShareContent as the entry
\* point calls it, up to the call of the first publish function
Format ==
    /\ pc = "format"
    /\ IF generateHashtagsThrows(Field(data, "book_id"))
       THEN /\ Raise("format")
            /\ UNCHANGED <<shareContent, args>>
       ELSE LET content == IF Lang(entry) = "ja"
                           THEN generateJapaneseShareContent(data)
                           ELSE generateEnglishShareContent(data)
            IN  /\ shareContent' = content
                /\ thrown' = thrown
                /\ IF PostsToX(entry)
                   THEN /\ pc' = "postToX"
                        /\ args' = [NoArgs EXCEPT !.text = content.text]
                   ELSE /\ pc' = "createSession"
                        /\ args' = BlueskyArgs(entry, data, content)
    /\ UNCHANGED <<oauth, shareUrls, entry, data, requests, xResult, accessJwt, facets, blob,
                   record, blueskyResult>>

\* postToX(text, credentials): build the header, send the tweet, compare the
\* status with 201; the combined entry points go on to postToBluesky
PostToX ==
    /\ pc = "postToX"
    /\ \E headerThrows \in BOOLEAN, fetchThrows \in BOOLEAN,
          responseCode \in {200, 201, 403} :
        /\ requests' = IF headerThrows THEN requests
                       ELSE Append(requests,
                                   Request("tweet", Undefined, fetchThrows,
                                           responseCode, Undefined))
        /\ IF (headerThrows \/ fetchThrows) /\ ~postToXCatches
           THEN /\ Raise("postToX")
                /\ UNCHANGED <<xResult, args>>
           ELSE /\ xResult' = IF headerThrows \/ fetchThrows THEN "false"
                              ELSE IF postToXSucceeded(responseCode) THEN "true"
                              ELSE "false"
                /\ thrown' = thrown
                /\ IF PostsToBluesky(entry)
                   THEN /\ pc' = "createSession"
                        /\ args' = BlueskyArgs(entry, data, shareContent)
                   ELSE /\ pc' = "done"
                        /\ args' = args
    /\ UNCHANGED <<oauth, shareUrls, entry, data, shareContent, accessJwt, facets, blob, record,
                   blueskyResult>>

\* what createBlueskySession returns for a response
SessionToken(throws, responseCode, body) ==
    IF throws THEN Null
    ELSE IF responseCode # 200 THEN Null
    ELSE IF body = NotJson THEN Null
    ELSE body

\* SessionAvailable testing for null only
SessionAvailable_NullOnly(jwt) ==
    jwt # Null

\* whether postToBluesky goes on after createBlueskySession returned jwt
SessionAvailable(jwt) ==
    Truthy(jwt)

\* createBlueskySession as postToBluesky calls it, and the check of its result.
\* body: the accessJwt of the parsed response (undefined when the response has
\* none), or NotJson
CreateBlueskySession ==
    /\ pc = "createSession"
    /\ \E throws \in BOOLEAN, responseCode \in {200, 401},
          body \in AccessJwts \cup {Undefined, <<>>, NotJson} :
        /\ requests' = Append(requests,
                               Request("session", Undefined, throws,
                                       responseCode, body))
        /\ IF (throws \/ (responseCode = 200 /\ body = NotJson))
              /\ ~createBlueskySessionCatches
           THEN /\ Raise("createBlueskySession")
                /\ UNCHANGED <<accessJwt, blueskyResult>>
           ELSE LET jwt == SessionToken(throws, responseCode, body)
                IN  /\ accessJwt' = jwt
                    /\ thrown' = thrown
                    /\ IF SessionAvailable(jwt)
                       THEN /\ pc' = "buildRecord"
                            /\ blueskyResult' = blueskyResult
                       ELSE /\ pc' = "done"
                            /\ blueskyResult' = "false"
    /\ UNCHANGED <<oauth, shareUrls, entry, args, data, shareContent, xResult, facets, blob,
                   record>>

\* the external embed postToBluesky attaches for a share URL
ExternalEmbed(a, thumb) ==
    [uri |-> a.shareUrl,
     title |-> IF Truthy(a.ogpTitle) THEN a.ogpTitle ELSE TitleJa,
     description |-> IF Truthy(a.ogpDescription) THEN a.ogpDescription
                     ELSE DescriptionJa,
     hasThumb |-> Truthy(thumb),
     thumb |-> IF Truthy(thumb) THEN thumb ELSE Undefined]

\* BaseRecord with the facets field always set
BaseRecord_AlwaysFacets(text, fs) ==
    [text |-> text, hasFacets |-> TRUE, facets |-> fs,
     hasEmbed |-> FALSE, embed |-> NoEmbed]

\* the record before the embed: facets only when there are some
BaseRecord(text, fs) ==
    [text |-> text, hasFacets |-> Len(fs) > 0, facets |-> fs,
     hasEmbed |-> FALSE, embed |-> NoEmbed]

\* postToBluesky from extractFacets to the embed without thumbnail.
\* Utilities.newBlob is called once a regular expression matched, and may throw
BuildRecord ==
    /\ pc = "buildRecord"
    /\ \E utilitiesThrows \in BOOLEAN :
        LET fs == extractFacets(args.text)
        IN  IF utilitiesThrows /\ Len(fs) > 0
            THEN /\ UNCHANGED <<facets, record>>
                 /\ IF postToBlueskyCatches
                    THEN /\ blueskyResult' = "false"
                         /\ pc' = "done"
                         /\ thrown' = thrown
                    ELSE /\ Raise("postToBluesky")
                         /\ blueskyResult' = blueskyResult
            ELSE /\ facets' = fs
                 /\ blueskyResult' = blueskyResult
                 /\ thrown' = thrown
                 /\ IF Truthy(args.shareUrl) /\ Truthy(args.ogpImageUrl)
                    THEN /\ record' = BaseRecord(args.text, fs)
                         /\ pc' = "uploadBlob"
                    ELSE /\ record' =
                              IF Truthy(args.shareUrl)
                              THEN [BaseRecord(args.text, fs) EXCEPT
                                        !.hasEmbed = TRUE,
                                        !.embed = ExternalEmbed(args, Undefined)]
                              ELSE BaseRecord(args.text, fs)
                         /\ pc' = "createRecord"
    /\ UNCHANGED <<oauth, shareUrls, entry, args, data, shareContent, requests, xResult, accessJwt,
                   blob>>

\* what uploadBlobToBluesky returns. body: the blob of the parsed upload
\* response (undefined when it has none), or NotJson
UploadResult(downloadThrows, uploadThrows, uploadCode, body) ==
    IF downloadThrows \/ uploadThrows THEN Null
    ELSE IF uploadCode # 200 THEN Null
    ELSE IF body = NotJson THEN Null
    ELSE body

\* the bearer uploadBlobToBluesky and createRecord send
Bearer(jwt) ==
    jwt

\* uploadBlobToBluesky(ogpImageUrl, accessJwt) as postToBluesky calls it, and
\* the embed built from its result. The download's status is not looked at
UploadBlob ==
    /\ pc = "uploadBlob"
    /\ \E downloadThrows \in BOOLEAN, downloadCode \in {200, 404},
          uploadThrows \in BOOLEAN, uploadCode \in {200, 400},
          body \in {BlobRef, Undefined, NotJson} :
        /\ requests' =
              IF downloadThrows
              THEN Append(requests,
                          Request("image", Undefined, TRUE, 0, Undefined))
              ELSE requests \o
                       <<Request("image", Undefined, FALSE, downloadCode,
                                 Undefined),
                         Request("blob", Bearer(accessJwt), uploadThrows,
                                 uploadCode, body)>>
        /\ IF (downloadThrows \/ uploadThrows
                  \/ (uploadCode = 200 /\ body = NotJson))
              /\ ~uploadBlobToBlueskyCatches
           THEN /\ UNCHANGED <<blob, record>>
                /\ IF postToBlueskyCatches
                   THEN /\ blueskyResult' = "false"
                        /\ pc' = "done"
                        /\ thrown' = thrown
                   ELSE /\ Raise("uploadBlobToBluesky")
                        /\ blueskyResult' = blueskyResult
           ELSE LET result == UploadResult(downloadThrows, uploadThrows,
                                           uploadCode, body)
                IN  /\ blob' = result
                    /\ record' = [record EXCEPT
                                      !.hasEmbed = TRUE,
                                      !.embed = ExternalEmbed(args, result)]
                    /\ blueskyResult' = blueskyResult
                    /\ thrown' = thrown
                    /\ pc' = "createRecord"
    /\ UNCHANGED <<oauth, shareUrls, entry, args, data, shareContent, xResult, accessJwt, facets>>

\* CreateRecord sending the request a second time when the first one failed
CreateRecord_RetryOnFailure ==
    /\ pc = "createRecord"
    /\ \E throws \in BOOLEAN, responseCode \in {200, 400} :
        LET r == Request("record", Bearer(accessJwt), throws, responseCode,
                         Undefined)
        IN  /\ requests' = IF throws \/ responseCode # 200
                           THEN requests \o <<r, r>>
                           ELSE Append(requests, r)
            /\ blueskyResult' =
                  IF ~throws /\ postToBlueskySucceeded(responseCode)
                  THEN "true" ELSE "false"
            /\ pc' = "done"
            /\ thrown' = thrown
    /\ UNCHANGED <<oauth, shareUrls, entry, args, data, shareContent, xResult, accessJwt, facets,
                   blob, record>>

\* the createRecord call of postToBluesky and the comparison of its status
CreateRecord ==
    /\ pc = "createRecord"
    /\ \E throws \in BOOLEAN, responseCode \in {200, 400} :
        /\ requests' = Append(requests,
                               Request("record", Bearer(accessJwt), throws,
                                       responseCode, Undefined))
        /\ IF throws /\ ~postToBlueskyCatches
           THEN /\ Raise("postToBluesky")
                /\ blueskyResult' = blueskyResult
           ELSE /\ blueskyResult' =
                      IF ~throws /\ postToBlueskySucceeded(responseCode)
                      THEN "true" ELSE "false"
                /\ pc' = "done"
                /\ thrown' = thrown
    /\ UNCHANGED <<oauth, shareUrls, entry, args, data, shareContent, xResult, accessJwt, facets,
                   blob, record>>

\* the texts given to direct postToX / postToBluesky calls
CallTexts ==
    TextsUpTo(MaxCallTokens)

\* a share URL given to a direct postToBluesky call: 'https://a'
CallShareUrl ==
    LitHttps \o <<97>>

\* an image URL given to a direct postToBluesky call: 'https://a/a'
CallImageUrl ==
    LitHttps \o <<97, 47, 97>>

\* the text of an English post given to a direct postToBluesky call: the
\* English share text of the record 'a-b' / 3 / 'T' / 'A'
EnglishCallText ==
    generateEnglishShareContent(
        CHOOSE d \in SentenceBodies : d.sentence_id = 3 /\ d.missing = {}).text

Init ==
    /\ entry \in Triggers \cup DirectCalls
    /\ pc = IF entry \in Triggers THEN "fetch"
            ELSE IF entry = "postToX" THEN "postToX"
            ELSE "createSession"
    /\ args \in
          IF entry \in Triggers THEN {NoArgs}
          ELSE IF entry = "postToX" THEN {[NoArgs EXCEPT !.text = t] : t \in CallTexts}
          ELSE [text : CallTexts \cup {EnglishCallText},
                shareUrl : {Undefined, <<>>, CallShareUrl},
                ogpTitle : {Undefined, <<84>>},
                ogpDescription : {Undefined, <<68>>},
                ogpImageUrl : {Undefined, CallImageUrl}]
    /\ data = NoData
    /\ shareContent = NoShareContent
    /\ requests = <<>>
    /\ xResult = "none"
    /\ accessJwt = Undefined
    /\ facets = <<>>
    /\ blob = Undefined
    /\ record = NoRecord
    /\ blueskyResult = "none"
    /\ thrown = "none"
    /\ shareUrls = <<>>
    /\ oauth = NoOAuth

Next ==
    \/ FetchSentence
    \/ Format
    \/ PostToX
    \/ CreateBlueskySession
    \/ BuildRecord
    \/ UploadBlob
    \/ CreateRecord

Spec ==
    Init /\ [][Next]_vars

----------------------------------------------------------------------------
(* extractFacets on its own, over every text of at most MaxTokens tokens.  *)

InitFacets ==
    /\ entry = "extractFacets"
    /\ pc = "extractFacets"
    /\ args \in {[NoArgs EXCEPT !.text = t] : t \in TextsUpTo(MaxTokens)}
    /\ data = NoData
    /\ shareContent = NoShareContent
    /\ requests = <<>>
    /\ xResult = "none"
    /\ accessJwt = Undefined
    /\ facets = <<>>
    /\ blob = Undefined
    /\ record = NoRecord
    /\ blueskyResult = "none"
    /\ thrown = "none"
    /\ shareUrls = <<>>
    /\ oauth = NoOAuth

\* facets = extractFacets(text)
ExtractFacets ==
    /\ pc = "extractFacets"
    /\ facets' = extractFacets(args.text)
    /\ pc' = "done"
    /\ UNCHANGED <<oauth, shareUrls, entry, args, data, shareContent, requests, xResult, accessJwt,
                   blob, record, blueskyResult, thrown>>

NextFacets ==
    ExtractFacets

SpecFacets ==
    InitFacets /\ [][NextFacets]_vars

----------------------------------------------------------------------------
(* generateShareUrl on its own: two calls, over every book id of at most   *)
(* MaxUrlTokens tokens, every sentence id up to MaxUrlId, both languages.  *)

InitShareUrl ==
    /\ entry = "generateShareUrl"
    /\ pc = "generateShareUrl"
    /\ args = NoArgs
    /\ data = NoData
    /\ shareContent = NoShareContent
    /\ requests = <<>>
    /\ xResult = "none"
    /\ accessJwt = Undefined
    /\ facets = <<>>
    /\ blob = Undefined
    /\ record = NoRecord
    /\ blueskyResult = "none"
    /\ thrown = "none"
    /\ shareUrls = <<>>
    /\ oauth = NoOAuth

\* one call generateShareUrl(bookId, sentenceId, lang)
GenerateShareUrl ==
    /\ pc = "generateShareUrl"
    /\ Len(shareUrls) < 2
    /\ \E bookId \in BookIdsUpTo(MaxUrlTokens), sentenceId \in 0..MaxUrlId,
          lang \in {"ja", "en"} :
        shareUrls' = Append(shareUrls,
            [bookId |-> bookId, sentenceId |-> sentenceId, lang |-> lang,
             url |-> generateShareUrl(bookId, NumberToString(sentenceId), lang)])
    /\ UNCHANGED <<oauth, entry, pc, args, data, shareContent, requests,
                   xResult, accessJwt, facets, blob, record, blueskyResult,
                   thrown>>

NextShareUrl ==
    GenerateShareUrl

SpecShareUrl ==
    InitShareUrl /\ [][NextShareUrl]_vars

----------------------------------------------------------------------------
(* generate*ShareContent followed by extractFacets on the generated text,  *)
(* over every record of FormatRecords.                                     *)

FormatEntries ==
    {"generateJapaneseShareContent", "generateEnglishShareContent"}

InitFormat ==
    /\ entry \in FormatEntries
    /\ pc = "generateShareContent"
    /\ args = NoArgs
    /\ data \in FormatRecords
    /\ shareContent = NoShareContent
    /\ requests = <<>>
    /\ xResult = "none"
    /\ accessJwt = Undefined
    /\ facets = <<>>
    /\ blob = Undefined
    /\ record = NoRecord
    /\ blueskyResult = "none"
    /\ thrown = "none"
    /\ shareUrls = <<>>
    /\ oauth = NoOAuth

\* content = generate*ShareContent(data); its text is what is posted
GenerateShareContent ==
    /\ pc = "generateShareContent"
    /\ LET content == IF entry = "generateJapaneseShareContent"
                      THEN generateJapaneseShareContent(data)
                      ELSE generateEnglishShareContent(data)
       IN  /\ shareContent' = content
           /\ args' = [NoArgs EXCEPT !.text = content.text,
                                     !.shareUrl = content.url]
    /\ pc' = "extractFacets"
    /\ UNCHANGED <<oauth, shareUrls, entry, data, requests, xResult, accessJwt,
                   facets, blob, record, blueskyResult, thrown>>

NextFormat ==
    \/ GenerateShareContent
    \/ ExtractFacets

SpecFormat ==
    InitFormat /\ [][NextFormat]_vars

----------------------------------------------------------------------------
(* generateOAuthSignature and generateOAuthHeader on their own, over every *)
(* parameter object of at most MaxParams extra parameters.                 *)

OAuthEntries ==
    {"generateOAuthSignature", "generateOAuthHeader"}

InitOAuth ==
    /\ entry \in OAuthEntries
    /\ pc = IF entry = "generateOAuthHeader" THEN "oauthParams"
            ELSE "generateOAuthSignature"
    /\ args = NoArgs
    /\ data = NoData
    /\ shareContent = NoShareContent
    /\ requests = <<>>
    /\ xResult = "none"
    /\ accessJwt = Undefined
    /\ facets = <<>>
    /\ blob = Undefined
    /\ record = NoRecord
    /\ blueskyResult = "none"
    /\ thrown = "none"
    /\ shareUrls = <<>>
    /\ oauth \in {[NoOAuth EXCEPT !.method = method, !.url = TweetsUrl,
                                  !.params = params,
                                  !.credentials = credentials] :
                      method \in Methods, params \in ParamSets(MaxParams),
                      credentials \in XCredentials}

\* generateOAuthHeader up to its call of generateOAuthSignature: timestamp,
\* nonce and the merged oauthParams
MergeOAuthParams ==
    /\ pc = "oauthParams"
    /\ \E timestamp \in Timestamps, nonce \in Nonces :
        oauth' = [oauth EXCEPT
                     !.timestamp = timestamp,
                     !.nonce = nonce,
                     !.oauthParams = oauthParams(oauth.params, oauth.credentials,
                                                 timestamp, nonce)]
    /\ pc' = "generateOAuthSignature"
    /\ UNCHANGED <<shareUrls, entry, args, data, shareContent, requests,
                   xResult, accessJwt, facets, blob, record, blueskyResult,
                   thrown>>

\* generateOAuthSignature, called by generateOAuthHeader with oauthParams or
\* on its own with params
GenerateOAuthSignature ==
    /\ pc = "generateOAuthSignature"
    /\ LET params == IF entry = "generateOAuthHeader" THEN oauth.oauthParams
                     ELSE oauth.params
       IN  \E signature \in Signatures :
               oauth' = [oauth EXCEPT
                   !.sortedParams = sortedParams(params),
                   !.signatureBaseString =
                       signatureBaseString(oauth.method, oauth.url, params),
                   !.signingKey = signingKey(oauth.credentials.apiSecret,
                                             oauth.credentials.accessTokenSecret),
                   !.signature = signature]
    /\ pc' = IF entry = "generateOAuthHeader" THEN "headerParams" ELSE "done"
    /\ UNCHANGED <<shareUrls, entry, args, data, shareContent, requests,
                   xResult, accessJwt, facets, blob, record, blueskyResult,
                   thrown>>

\* the rest of generateOAuthHeader: the signature joins oauthParams and the
\* header is assembled
BuildOAuthHeader ==
    /\ pc = "headerParams"
    /\ LET signed == WithSignature(oauth.oauthParams, oauth.signature)
       IN  oauth' = [oauth EXCEPT !.oauthParams = signed,
                                  !.header = LitOAuth \o headerParams(signed)]
    /\ pc' = "done"
    /\ UNCHANGED <<shareUrls, entry, args, data, shareContent, requests,
                   xResult, accessJwt, facets, blob, record, blueskyResult,
                   thrown>>

NextOAuth ==
    \/ MergeOAuthParams
    \/ GenerateOAuthSignature
    \/ BuildOAuthHeader

SpecOAuth ==
    InitOAuth /\ [][NextOAuth]_vars

----------------------------------------------------------------------------
(* Properties.                                                             *)

\* the positions in requests of the calls to one endpoint
Sent(kind) ==
    {i \in 1..Len(requests) : requests[i].kind = kind}

\* the endpoints a publish function calls
PublishKinds ==
    {"tweet", "session", "image", "blob", "record"}

\* the call has ended, by a return or by an exception reaching the caller
Ended ==
    pc \in {"done", "escaped"}

\* postToX was called and is over
PostToXOver ==
    xResult # "none" \/ thrown = "postToX"

\* postToBluesky was called and is over
PostToBlueskyOver ==
    Sent("session") # {} /\ Ended

\* the requests of kind `kind` that were answered with `status`
Answered(kind, status) ==
    {i \in Sent(kind) : ~requests[i].threw /\ requests[i].status = status}

\* the session requests answered 200 with a token
TokenSessions ==
    {i \in Answered("session", 200) :
        requests[i].body # NotJson /\ Truthy(requests[i].body)}

\* C1: once postToX is over it has returned, never thrown, and it returned
\* true exactly when the tweet was sent and answered with status 201; any
\* other status and any exception while building or sending gave false.
C1_PostToXResult ==
    PostToXOver =>
        /\ thrown # "postToX"
        /\ pc # "escaped"
        /\ xResult = IF Answered("tweet", 201) # {} THEN "true" ELSE "false"

\* C1 witness: a direct postToX call answered 403 returned false.
C1_Witness ==
    /\ entry = "postToX"
    /\ pc = "done"
    /\ Answered("tweet", 403) # {}
    /\ xResult = "false"

\* C2: once postToBluesky is over it has returned a boolean, never thrown,
\* and it returned true exactly when the session gave a token and
\* createRecord was answered with status 200.
C2_PostToBlueskyResult ==
    PostToBlueskyOver =>
        /\ thrown \notin {"createBlueskySession", "postToBluesky",
                          "uploadBlobToBluesky"}
        /\ pc = "done"
        /\ blueskyResult = IF TokenSessions # {} /\ Answered("record", 200) # {}
                           THEN "true" ELSE "false"

\* C2 witness: the session gave a token, createRecord was answered 400, and
\* postToBluesky returned false.
C2_Witness ==
    /\ pc = "done"
    /\ TokenSessions # {}
    /\ Answered("record", 400) # {}
    /\ blueskyResult = "false"

\* C3: every blob-upload and record-creation request comes after a session
\* request that was answered 200 with a token, and carries that token as its
\* bearer; when the session gave no token postToBluesky returned false
\* without any image download, blob upload or record creation.
C3_SessionFirst ==
    /\ \A i \in Sent("blob") \cup Sent("record") :
          \E j \in TokenSessions : j < i /\ requests[i].bearer = requests[j].body
    /\ (Sent("session") # {} /\ TokenSessions = {}) =>
          /\ blueskyResult = "false"
          /\ pc = "done"
          /\ Sent("image") \cup Sent("blob") \cup Sent("record") = {}

\* C3 witness: a blob upload and a record creation were both sent.
C3_Witness ==
    /\ Sent("blob") # {}
    /\ Sent("record") # {}

\* the thumbnail upload was attempted and gave no blob
UploadFailed ==
    /\ Truthy(args.shareUrl)
    /\ Truthy(args.ogpImageUrl)
    /\ Sent("image") # {}
    /\ ~Truthy(blob)

\* C4: with a share URL and an OGP image URL, when the thumbnail upload
\* fails the record still goes out with an external embed that has no
\* thumb, and the call returns true if createRecord is answered 200.
C4_UploadFailureKeepsEmbed ==
    (UploadFailed /\ pc \in {"createRecord", "done", "escaped"}) =>
        /\ record.hasEmbed
        /\ ~record.embed.hasThumb
        /\ record.embed.uri = args.shareUrl
        /\ Ended =>
              /\ Sent("record") # {}
              /\ Answered("record", 200) # {} => blueskyResult = "true"

\* C4 witness: the upload returned null, the record went out with an embed
\* and postToBluesky returned true.
C4_Witness ==
    /\ UploadFailed
    /\ blob = Null
    /\ record.hasEmbed
    /\ blueskyResult = "true"

\* a URL as the text shows it: 'http://' or 'https://' followed by a
\* character that is not white space
ContainsUrl(text) ==
    \E i \in 1..Len(text) :
        \/ /\ HasAt(text, i, LitHttp)
           /\ i + 7 <= Len(text)
           /\ ~IsSpace(text[i + 7])
        \/ /\ HasAt(text, i, LitHttps)
           /\ i + 8 <= Len(text)
           /\ ~IsSpace(text[i + 8])

\* a hashtag as the text shows it: '#' followed by a hashtag character
ContainsHashtag(text) ==
    \E i \in 1..(Len(text) - 1) : text[i] = 35 /\ IsTagChar(text[i + 1])

\* C5: extractFacets returns no span exactly for the texts with no URL and
\* no hashtag, and the record handed to createRecord has the facets field
\* (holding the spans) exactly when extractFacets returned at least one.
C5_FacetsFieldOnlyWhenSpans ==
    Sent("record") # {} =>
        /\ facets = <<>> <=> (~ContainsUrl(args.text) /\ ~ContainsHashtag(args.text))
        /\ record.hasFacets <=> facets # <<>>
        /\ record.facets = facets
        /\ record.text = args.text

\* C5 witness: a record for a non-empty text with no URL and no hashtag went
\* out without the facets field.
C5_Witness ==
    /\ Sent("record") # {}
    /\ Len(args.text) > 0
    /\ ~ContainsUrl(args.text)
    /\ ~ContainsHashtag(args.text)
    /\ ~record.hasFacets

\* the substring a facet annotates: the uri of a link, '#' and the tag of a tag
Matched(f) ==
    IF f.type = "app.bsky.richtext.facet#link" THEN f.value ELSE LitHash \o f.value

\* C6: for every span of extractFacets(text), byteEnd - byteStart is the
\* UTF-8 length of the matched substring, byteStart is the UTF-8 length of
\* the text before an occurrence of it, and the bytes of the text from
\* byteStart to byteEnd are the UTF-8 bytes of the matched substring.
C6_ByteOffsets ==
    pc = "done" =>
        \A k \in 1..Len(facets) :
            LET f == facets[k]
                m == Matched(f)
                bytes == GetBytes(args.text)
            IN  /\ f.index.byteEnd - f.index.byteStart = Len(GetBytes(m))
                /\ f.index.byteEnd <= Len(bytes)
                /\ SubSeq(bytes, f.index.byteStart + 1, f.index.byteEnd)
                       = GetBytes(m)
                /\ \E i \in 0..(Len(args.text) - Len(m)) :
                       /\ Substring(args.text, i, i + Len(m)) = m
                       /\ Len(GetBytes(Substring(args.text, 0, i)))
                              = f.index.byteStart

\* C6 witness: a hashtag with a multi-byte character after multi-byte text.
C6_Witness ==
    /\ pc = "done"
    /\ \E k \in 1..Len(facets) :
          /\ facets[k].type = "app.bsky.richtext.facet#tag"
          /\ facets[k].index.byteEnd - facets[k].index.byteStart
                 > Len(Matched(facets[k]))
          /\ \E i \in 1..Len(args.text) :
                /\ args.text[i] = 35
                /\ facets[k].index.byteStart > i - 1

\* C7 as claimed: no two spans of extractFacets(text) overlap.
C7_NoOverlap ==
    \A k \in 1..Len(facets) : \A l \in 1..Len(facets) :
        k # l =>
            \/ facets[k].index.byteEnd <= facets[l].index.byteStart
            \/ facets[l].index.byteEnd <= facets[k].index.byteStart

\* the content fetch failed: fetch*Sentence threw its Error
FetchFailed ==
    thrown = "fetch"

\* the content API call threw, was answered with a non-success status, or
\* was answered with a body that is no JSON object
ContentUnusable ==
    /\ Sent("content") # {}
    /\ \/ Answered("content", 200) = {}
       \/ \E i \in Sent("content") : requests[i].body # Undefined

\* C8: in every trigger entry point, when the content fetch fails (the call
\* throws, the status is not a success, the body is no JSON object) no
\* publish request of any kind is sent and the entry point returns normally;
\* no exception ever leaves a trigger entry point.
C8_FetchFailureAborts ==
    entry \in Triggers =>
        /\ pc # "escaped"
        /\ ContentUnusable => FetchFailed
        /\ FetchFailed =>
              /\ pc = "done"
              /\ \A i \in 1..Len(requests) : requests[i].kind \notin PublishKinds
              /\ xResult = "none"
              /\ blueskyResult = "none"

\* C8 witness: postJapanese returned after a content fetch answered 404.
C8_Witness ==
    /\ entry = "postJapanese"
    /\ FetchFailed
    /\ Answered("content", 404) # {}
    /\ pc = "done"

C10_FetchValidates ==
    (entry \in Triggers /\ Sent("content") # {}) =>
        (FetchFailed <=>
            \/ Answered("content", 200) = {}
            \/ \E i \in Sent("content") : requests[i].body # Undefined
            \/ ~IsSentenceRecord(data))

\* C11 as claimed: uploadBlobToBluesky never throws, returns a blob
\* reference only when the image download succeeded and the upload was
\* answered 200, and returns null on every failure of either.
C11_UploadResultAsClaimed ==
    (Sent("image") # {} /\ pc \in {"createRecord", "done", "escaped"}) =>
        /\ thrown # "uploadBlobToBluesky"
        /\ Truthy(blob) =>
              Answered("image", 200) # {} /\ Answered("blob", 200) # {}
        /\ (Answered("image", 200) = {} \/ Answered("blob", 200) = {}) =>
              blob = Null

\* C12: no endpoint is requested twice in one invocation, and once a
\* trigger entry point is past its fetch the content endpoint was requested
\* exactly once, whatever the responses were.
C12_NoRetries ==
    /\ \A kind \in PublishKinds \cup {"content"} : Cardinality(Sent(kind)) <= 1
    /\ (entry \in Triggers /\ pc # "fetch") => Cardinality(Sent("content")) = 1

\* C12 witness: postJapanese ended with every endpoint requested once, the
\* tweet refused (403) and the record refused (400).
C12_Witness ==
    /\ entry = "postJapanese"
    /\ pc = "done"
    /\ \A kind \in PublishKinds \cup {"content"} : Cardinality(Sent(kind)) = 1
    /\ Answered("tweet", 403) # {}
    /\ Answered("record", 400) # {}

\* whether u occurs in t as a run of consecutive code units
IsSubstring(u, t) ==
    \E i \in 1..(Len(t) - Len(u) + 1) : HasAt(t, i, u)

\* C14: two generateShareUrl calls return the same URL only if book id,
\* sentence id and language are all equal, and every URL returned carries
\* the percent-encoded book id (right after 'book_id=') and the decimal
\* sentence id (right after '&sentence_id=', to the end).
C14_ShareUrlInjective ==
    /\ \A i, j \in 1..Len(shareUrls) :
          shareUrls[i].url = shareUrls[j].url =>
              /\ shareUrls[i].bookId = shareUrls[j].bookId
              /\ shareUrls[i].sentenceId = shareUrls[j].sentenceId
              /\ shareUrls[i].lang = shareUrls[j].lang
    /\ \A i \in 1..Len(shareUrls) :
          LET c == shareUrls[i]
              base == IF c.lang = "en" THEN ShareBaseEn ELSE ShareBaseJa
              id == NumberToString(c.sentenceId)
          IN  /\ HasAt(c.url, Len(base) + 1,
                       encodeURIComponent(c.bookId) \o ShareSentenceId)
              /\ HasAt(c.url, Len(c.url) - Len(id) + 1, id)
              /\ IsSubstring(encodeURIComponent(c.bookId), c.url)
              /\ IsSubstring(id, c.url)

\* C14 witness: two calls that differ only in a book id that needs
\* escaping ('&' against '%') returned different URLs.
C14_Witness ==
    /\ Len(shareUrls) = 2
    /\ shareUrls[1].bookId = <<38>>
    /\ shareUrls[2].bookId = <<37>>
    /\ shareUrls[1].sentenceId = shareUrls[2].sentenceId
    /\ shareUrls[1].lang = shareUrls[2].lang
    /\ shareUrls[1].url # shareUrls[2].url

\* the language of a generate*ShareContent function
FormatLang ==
    IF entry = "generateJapaneseShareContent" THEN "ja" ELSE "en"

\* C13: the url of the ShareContent returned by generateJapaneseShareContent
\* and generateEnglishShareContent occurs verbatim in its text and equals
\* generateShareUrl(book_id, sentence_id, lang) for the function's language.
C13_UrlInText ==
    (entry \in FormatEntries /\ pc # "generateShareContent") =>
        /\ IsSubstring(shareContent.url, shareContent.text)
        /\ shareContent.url =
              generateShareUrl(data.book_id, NumberToString(data.sentence_id),
                               FormatLang)

\* C13 witness: the English content of a record whose book id needs
\* escaping ('&') and whose title holds a '#'.
C13_Witness ==
    /\ entry = "generateEnglishShareContent"
    /\ pc = "done"
    /\ data.book_id = <<38>>
    /\ data.title = <<97, 32, 35, 98>>
    /\ IsSubstring(shareContent.url, shareContent.text)
    /\ Len(shareContent.url) < Len(shareContent.text)

\* the hashtag line the specification describes for the record in data
HashtagLine ==
    (IF FormatLang = "ja" THEN MainHashtagJa ELSE MainHashtagEn)
        \o <<32, 35>> \o SelectSeq(data.book_id, LAMBDA u : u # 45)
        \o <<95>> \o NumberToString(data.sentence_id)

\* '#\u30e9\u30f3\u30c0\u30e0\u66f8\u5199 #meiannatsume_12'
MeianHashtagLine ==
    <<35, 12521, 12531, 12480, 12512, 26360, 20889, 32, 35, 109, 101, 105, 97, 110, 110, 97, 116, 115, 117, 109, 101, 95, 49, 50>>

NoMarkers(s) ==
    /\ \A i \in 1..Len(s) : s[i] # 35
    /\ ~IsSubstring(LitHttp, s)
    /\ ~IsSubstring(LitHttps, s)

\* whether s is made of ASCII letters, digits, underscores and hyphens
IsPlainBookId(s) ==
    \A i \in 1..Len(s) :
        \/ (s[i] >= 97 /\ s[i] <= 122)
        \/ (s[i] >= 65 /\ s[i] <= 90)
        \/ (s[i] >= 48 /\ s[i] <= 57)
        \/ s[i] \in {95, 45}

\* the case C20 is about
PlainRecord ==
    /\ NoMarkers(data.title)
    /\ NoMarkers(data.author)
    /\ IsPlainBookId(data.book_id)

\* C20: for a record whose title and author hold no '#', 'http://' or
\* 'https://' and whose book id is ASCII letters, digits, '_' and '-',
\* extractFacets on the generated text returns exactly three spans: the link
\* to ShareContent.url, running to the end of the text, then the primary tag
\* and the whole per-work tag, both ending before the link starts.
C20_ThreeFacets ==
    (entry \in FormatEntries /\ pc = "done" /\ PlainRecord) =>
        /\ Len(facets) = 3
        /\ facets[1].type = "app.bsky.richtext.facet#link"
        /\ facets[1].value = shareContent.url
        /\ facets[1].index.byteEnd = Len(GetBytes(shareContent.text))
        /\ facets[2].type = "app.bsky.richtext.facet#tag"
        /\ <<35>> \o facets[2].value =
              (IF FormatLang = "ja" THEN MainHashtagJa ELSE MainHashtagEn)
        /\ facets[3].type = "app.bsky.richtext.facet#tag"
        /\ facets[3].value =
              SelectSeq(data.book_id, LAMBDA u : u # 45) \o <<95>>
                  \o NumberToString(data.sentence_id)
        /\ facets[2].index.byteEnd <= facets[3].index.byteStart
        /\ facets[3].index.byteEnd <= facets[1].index.byteStart

\* C20 witness: the three spans of the Japanese content of a record with a
\* hyphen in its book id and a two-digit sentence id.
C20_Witness ==
    /\ entry = "generateJapaneseShareContent"
    /\ pc = "done"
    /\ PlainRecord
    /\ data.book_id = <<97, 45>>
    /\ data.sentence_id = 12
    /\ data.title = <<26126, 26263>>
    /\ Len(facets) = 3

\* the states right after generateOAuthSignature returned
SignatureComputed ==
    \/ (entry = "generateOAuthSignature" /\ pc = "done")
    \/ (entry = "generateOAuthHeader" /\ pc = "headerParams")

\* the parameters generateOAuthSignature was given
SignedParams ==
    IF entry = "generateOAuthHeader" THEN oauth.oauthParams ELSE oauth.params

\* the keys of a set in ascending order of their percent-encoded form
KeysByEncodedKey(keys) ==
    [i \in 1..Cardinality(keys) |->
        CHOOSE k \in keys :
            Cardinality({o \in keys : StringLess(encodeURIComponent(o),
                                                 encodeURIComponent(k))}) = i - 1]

\* C16 as claimed: the parameter string of generateOAuthSignature lists the
\* key=value pairs in lexicographic order of their percent-encoded keys.
C16_SortedByEncodedKey ==
    SignatureComputed =>
        LET keys == KeysByEncodedKey(DOMAIN SignedParams)
        IN  oauth.sortedParams =
                Join([i \in 1..Len(keys) |->
                         encodeURIComponent(keys[i]) \o <<61>>
                             \o encodeURIComponent(SignedParams[keys[i]])],
                     <<38>>)

\* the unreserved characters of RFC 3986: ASCII letters, digits, - . _ ~
IsRfc3986Unreserved(b) ==
    \/ (b >= 97 /\ b <= 122)
    \/ (b >= 65 /\ b <= 90)
    \/ (b >= 48 /\ b <= 57)
    \/ b \in {45, 46, 95, 126}

RECURSIVE Rfc3986Bytes(_, _, _)
\* bytes lo..hi of bs, every byte outside the unreserved set as %XX
Rfc3986Bytes(bs, lo, hi) ==
    IF lo > hi THEN <<>>
    ELSE IF lo = hi
         THEN IF IsRfc3986Unreserved(bs[lo]) THEN <<bs[lo]>>
              ELSE <<37, HexDigit(bs[lo] \div 16), HexDigit(bs[lo] % 16)>>
    ELSE Rfc3986Bytes(bs, lo, (lo + hi) \div 2)
             \o Rfc3986Bytes(bs, ((lo + hi) \div 2) + 1, hi)

\* the percent-encoding of s per RFC 3986
Rfc3986(s) ==
    Rfc3986Bytes(GetBytes(s), 1, Len(GetBytes(s)))

\* the parameter string with keys and values encoded per RFC 3986, in the
\* key order the code uses
Rfc3986Params(params) ==
    LET keys == SortKeys(DOMAIN params)
    IN  Join([i \in 1..Len(keys) |->
                 Rfc3986(keys[i]) \o <<61>> \o Rfc3986(params[keys[i]])],
             <<38>>)

\* C17 as claimed: keys, values, the URL and both secrets are encoded per
\* RFC 3986 (everything but ASCII letters, digits, - . _ ~ as %XX) in the
\* parameter string, the signature base string, the signing key and the
\* header.
C17_Rfc3986Encoding ==
    /\ SignatureComputed =>
          /\ oauth.sortedParams = Rfc3986Params(SignedParams)
          /\ oauth.signatureBaseString =
                Join(<<toUpperCase(oauth.method), Rfc3986(oauth.url),
                       Rfc3986(Rfc3986Params(SignedParams))>>, <<38>>)
          /\ oauth.signingKey =
                Rfc3986(oauth.credentials.apiSecret) \o <<38>>
                    \o Rfc3986(oauth.credentials.accessTokenSecret)
    /\ (entry = "generateOAuthHeader" /\ pc = "done") =>
          LET keys == SortKeys({key \in DOMAIN oauth.oauthParams :
                                   StartsWithOAuth(key)})
          IN  oauth.header =
                  LitOAuth \o
                  Join([i \in 1..Len(keys) |->
                           Rfc3986(keys[i]) \o <<61, 34>>
                               \o Rfc3986(oauth.oauthParams[keys[i]]) \o <<34>>],
                       <<44, 32>>)

\* C18: the header generateOAuthHeader returns is 'OAuth ' followed by
\* exactly the parameters whose key starts with 'oauth_' (the six fixed ones
\* and the computed oauth_signature among them), in ascending key order, each
\* as key="value" and joined by ', '; a parameter without the prefix is in
\* the signature base string and not in the header.
C18_HeaderParams ==
    (entry = "generateOAuthHeader" /\ pc = "done") =>
        LET all == oauth.oauthParams
            expected == {key \in DOMAIN all : StartsWithOAuth(key)}
            keys == SortKeys(expected)
        IN  /\ FixedOAuthKeys \cup {OAuthSignature} \subseteq expected
            /\ all[OAuthSignature] = oauth.signature
            /\ oauth.header =
                  LitOAuth \o
                  Join([i \in 1..Len(keys) |->
                           encodeURIComponent(keys[i]) \o <<61, 34>>
                               \o encodeURIComponent(all[keys[i]]) \o <<34>>],
                       <<44, 32>>)
            /\ \A key \in DOMAIN oauth.params :
                  ~StartsWithOAuth(key) =>
                      /\ ~IsSubstring(encodeURIComponent(key) \o <<61, 34>>,
                                      oauth.header)
                      /\ IsSubstring(
                            encodeURIComponent(
                                encodeURIComponent(key) \o <<61>>
                                    \o encodeURIComponent(oauth.params[key])),
                            oauth.signatureBaseString)

\* C18 witness: a header built from the extra parameters 'status' and
\* 'oauth_callback': eight parameters in the header, 'status' signed only.
C18_Witness ==
    /\ entry = "generateOAuthHeader"
    /\ pc = "done"
    /\ DOMAIN oauth.params = {<<115, 116, 97, 116, 117, 115>>, <<111, 97, 117, 116, 104, 95, 99, 97, 108, 108, 98, 97, 99, 107>>}
    /\ Cardinality({key \in DOMAIN oauth.oauthParams : StartsWithOAuth(key)}) = 8
    /\ IsSubstring(<<111, 97, 117, 116, 104, 95, 115, 105, 103, 110, 97, 116, 117, 114, 101, 61, 34>>, oauth.header)
    /\ IsSubstring(<<115, 116, 97, 116, 117, 115, 37, 51, 68>>, oauth.signatureBaseString)

\* the language of the post handed to postToBluesky: that of the entry
\* point, and for a direct call English when the text carries the English
\* primary tag
PostLang ==
    IF entry \in Triggers THEN Lang(entry)
    ELSE IF IsSubstring(MainHashtagEn, args.text) THEN "en"
    ELSE "ja"

\* C19 as claimed: the record handed to createRecord has an external embed
\* exactly when a non-empty share URL was given; its uri is that URL, its
\* title and description are the caller's when given and otherwise the
\* defaults of the post's language; without a share URL no image is
\* downloaded and no blob uploaded.
C19_EmbedAsClaimed ==
    (pc = "createRecord" \/ Sent("record") # {}) =>
        /\ record.hasEmbed <=> Truthy(args.shareUrl)
        /\ record.hasEmbed =>
              /\ record.embed.uri = args.shareUrl
              /\ record.embed.title =
                    IF Truthy(args.ogpTitle) THEN args.ogpTitle
                    ELSE IF PostLang = "en" THEN TitleEn ELSE TitleJa
              /\ record.embed.description =
                    IF Truthy(args.ogpDescription) THEN args.ogpDescription
                    ELSE IF PostLang = "en" THEN DescriptionEn ELSE DescriptionJa
        /\ ~Truthy(args.shareUrl) => Sent("image") = {} /\ Sent("blob") = {}

====
